---- MODULE Spec2Model ----
(***************************************************************************)
(* The aggregation engine of backend/telemetry_observer/src/main.rs:       *)
(* the node registry, the block ledger, the finalization sweep and the     *)
(* retention pass of TelemetryObserver, driven by decoded feed messages.   *)
(***************************************************************************)
EXTENDS Integers, Sequences, FiniteSets, TLC

(***************************************************************************)
(* Program constants.                                                      *)
(***************************************************************************)
\* main.rs:383  block_list.len() > 100 / &block_list[100..]
RetentionWindow == 100
\* main.rs:286  lowest_prop_time: 999999 of a new BlockInfo
InitialLowestPropTime == 999999
\* main.rs:327  block.report_count >= 3
ReportThreshold == 3
\* main.rs:328  time_since_first > 3
AgeThreshold == 3
\* main.rs:530, 535  sleep(Duration::from_secs(5))
ReconnectDelay == 5

(***************************************************************************)
(* Bounds of the model.                                                    *)
(***************************************************************************)
\* node ordinals of the feed: 1..NumNodes
NumNodes == 3
\* a record receives at most MaxReports accepted block imports
MaxReports == 4

Ordinals == 1..NumNodes

\* Hashes the feed reports on.
LiveHashes == {"0xAA", "0xBB"}

\* Propagation times the feed reports: two ordinary ones, and one above the
\* lowest_prop_time a new record starts with.
PropTimes == {40, 50, InitialLowestPropTime + 1}

\* Readings of the wall clock: around the age threshold.
ClockReadings == {0, AgeThreshold, AgeThreshold + 1}

\* Block imports process_block_import rejects: block_data[1] not a string or
\* empty, block_data[4] not a number or 0.
RejectedImports == {<<1, 1, "", 40>>, <<1, 1, "0xAA", 0>>, <<1, 1, "", 0>>}

\* Hashes of the records of a ledger snapshot written by an earlier run.
SnapshotHash(i) == "0xF" \o ToString(i)
SnapshotHashes == {SnapshotHash(i) : i \in 1..(RetentionWindow - 1)}

VARIABLES
  nodes,        \* TelemetryObserver.nodes: key string -> NodeInfo
  blocks,       \* TelemetryObserver.blocks: hash -> BlockInfo
  clock,        \* the wall clock as last read by SystemTime::now(), in seconds
  outputs,      \* the rows the last processed message appended to the CSV file
  crashed,      \* the process has panicked
  phase,        \* where the process is: "stopped", "failed" (new() returned Err), or
                \* the position of run(): "connecting", "subscribing", "receiving",
                \* "refused" (connect failed), "dropped" (the stream ended)
  waited,       \* seconds run() has slept since the last transport failure
  nodesFile,    \* config.nodes_file: [state, registry]
  blocksFile,   \* config.blocks_file: [state, ledger]
  held,         \* the mutexes whose guard the task holds: "nodes", "blocks", "csv_writer"
  task,         \* where the task is inside a handler, with the message it handles
  \* history variables
  emitted,      \* hashes for which this run has emitted rows
  lastLowest,   \* hash -> lowest_prop_time stored after its last accepted import (0: none)
  history,      \* hash this run put in the ledger -> the accepted imports of its record
  rejected      \* the message processed last was a block import dropped at validation

vars == <<nodes, blocks, clock, outputs, crashed, phase, waited, nodesFile, blocksFile,
          held, task, emitted, lastLowest, history, rejected>>

(***************************************************************************)
(* Helpers.                                                                *)
(***************************************************************************)
\* The largest element of a set of naturals (found as the least negation).
Max(S) ==
  LET neg == {0 - y : y \in S}
  IN  0 - (CHOOSE x \in neg : \A y \in neg : x <= y)

\* All orders in which a hash map iteration can visit the keys in S.
RECURSIVE Orders(_)
Orders(S) ==
  IF S = {} THEN {<<>>}
  ELSE UNION {{<<h>> \o o : o \in Orders(S \ {h})} : h \in S}

\* The subsets of S with exactly k elements.
RECURSIVE KSubsets(_, _)
KSubsets(S, k) ==
  IF k = 0 THEN {{}}
  ELSE IF Cardinality(S) < k THEN {}
  ELSE LET x == CHOOSE y \in S : TRUE
       IN  KSubsets(S \ {x}, k) \cup {T \cup {x} : T \in KSubsets(S \ {x}, k - 1)}

Restrict(f, S) == [x \in S |-> f[x]]

\* node_idx.to_string()
NodeKey(node_idx) == ToString(node_idx)

(***************************************************************************)
(* Node registry.                                                          *)
(***************************************************************************)
NodeInfo(name, node_id) == [name |-> name, node_id |-> node_id]

\* nodes.insert(node_idx.to_string(), NodeInfo { .. })
InsertNode(ns, node_idx, name, node_id) ==
  [k \in DOMAIN ns \cup {NodeKey(node_idx)} |->
     IF k = NodeKey(node_idx) THEN NodeInfo(name, node_id) ELSE ns[k]]

\* Mutation: the name is looked up under the key of the next ordinal.
LookupNameOffByOne(ns, node_idx) ==
  IF NodeKey(node_idx + 1) \in DOMAIN ns
  THEN ns[NodeKey(node_idx + 1)].name
  ELSE "unknown_node_" \o ToString(node_idx)

\* nodes.get(&node_idx.to_string()) with the two unwrap_or_else defaults
LookupName(ns, node_idx) ==
  IF NodeKey(node_idx) \in DOMAIN ns
  THEN ns[NodeKey(node_idx)].name
  ELSE "unknown_node_" \o ToString(node_idx)

LookupId(ns, node_idx) ==
  IF NodeKey(node_idx) \in DOMAIN ns
  THEN ns[NodeKey(node_idx)].node_id
  ELSE "unknown_id"

(***************************************************************************)
(* Block ledger: the update of the record an import touches.               *)
(***************************************************************************)
BlockReporter(node_idx, node_name, node_id, timestamp) ==
  [node_idx |-> node_idx, node_name |-> node_name, node_id |-> node_id,
   timestamp |-> timestamp]

\* The BlockInfo that entry().or_insert() creates.
NewBlockInfo(block_number, now) ==
  [block_number |-> block_number,
   lowest_prop_time |-> InitialLowestPropTime,
   reporters |-> <<>>,
   first_seen |-> now,
   report_count |-> 0,
   output |-> FALSE]

\* blocks.entry(block_hash).or_insert(..): the record the import works on.
\* Mutation: blocks.insert, which overwrites the record of a known hash.
EntryOrInsertOverwriting(bs, block_hash, block_number, now) ==
  NewBlockInfo(block_number, now)

\* blocks.entry(block_hash).or_insert(BlockInfo { .. })
EntryOrInsert(bs, block_hash, block_number, now) ==
  IF block_hash \in DOMAIN bs THEN bs[block_hash] ELSE NewBlockInfo(block_number, now)

\* block.reporters.iter().any(|r| r.node_idx == node_idx)
HasReporter(block, node_idx) ==
  \E i \in 1..Len(block.reporters) : block.reporters[i].node_idx = node_idx

\* Mutation: a report of a finalized record is not counted.
CountReportIfOpen(block) ==
  IF block.output THEN block ELSE [block EXCEPT !.report_count = @ + 1]

\* Mutation: a report reopens the record it counts on.
CountReportReopening(block) ==
  [block EXCEPT !.report_count = @ + 1, !.output = FALSE]

\* block.report_count += 1
CountReport(block) == [block EXCEPT !.report_count = @ + 1]

\* Mutation: the lower time replaces the reporters but is not stored.
UpdateReportersKeepLowest(block, reporter, propagation_time) ==
  IF propagation_time < block.lowest_prop_time
  THEN [block EXCEPT !.reporters = <<reporter>>]
  ELSE IF propagation_time = block.lowest_prop_time
          /\ ~HasReporter(block, reporter.node_idx)
       THEN [block EXCEPT !.reporters = Append(@, reporter)]
       ELSE block

\* Mutation: a tied report is appended without the check for its ordinal.
UpdateReportersNoDedup(block, reporter, propagation_time) ==
  IF propagation_time < block.lowest_prop_time
  THEN [block EXCEPT !.lowest_prop_time = propagation_time,
                     !.reporters = <<reporter>>]
  ELSE IF propagation_time = block.lowest_prop_time
       THEN [block EXCEPT !.reporters = Append(@, reporter)]
       ELSE block

\* Mutation: every report replaces the lowest time and the reporters.
UpdateReportersAlways(block, reporter, propagation_time) ==
  [block EXCEPT !.lowest_prop_time = propagation_time,
                !.reporters = <<reporter>>]

\* The if / else if on propagation_time after the count.
UpdateReporters(block, reporter, propagation_time) ==
  IF propagation_time < block.lowest_prop_time
  THEN [block EXCEPT !.lowest_prop_time = propagation_time,
                     !.reporters = <<reporter>>]
  ELSE IF propagation_time = block.lowest_prop_time
          /\ ~HasReporter(block, reporter.node_idx)
       THEN [block EXCEPT !.reporters = Append(@, reporter)]
       ELSE block

\* The ledger after the touched record was updated, before the sweep.
RecordReport(bs, reporter, block_number, block_hash, propagation_time, now) ==
  LET block == EntryOrInsert(bs, block_hash, block_number, now)
      updated == UpdateReporters(CountReport(block), reporter, propagation_time)
  IN  [h \in DOMAIN bs \cup {block_hash} |-> IF h = block_hash THEN updated ELSE bs[h]]

(***************************************************************************)
(* Finalization sweep.                                                     *)
(***************************************************************************)
\* blocks.values().map(|b| b.block_number).max().unwrap_or(0)
MaxBlock(bs) ==
  IF DOMAIN bs = {} THEN 0 ELSE Max({bs[h].block_number : h \in DOMAIN bs})

\* u64::saturating_sub
SaturatingSub(a, b) == IF a >= b THEN a - b ELSE 0

\* now - block.first_seen underflows (u64): a panic of a build with overflow
\* checks, a wrapped difference otherwise.
AgeUnderflows(block, now) == now < block.first_seen

\* Mutation: the age threshold is inclusive.
AgeExceededInclusive(block, now) ==
  IF AgeUnderflows(block, now) THEN TRUE ELSE now - block.first_seen >= AgeThreshold

\* time_since_first > 3, with the wrapped difference 2^64 - (first_seen - now),
\* which exceeds 3 for the clock readings of this model.
AgeExceeded(block, now) ==
  IF AgeUnderflows(block, now) THEN TRUE ELSE now - block.first_seen > AgeThreshold

\* Mutation: two blocks behind the tallest one.
IsBehindByTwo(block, max_block) == block.block_number < SaturatingSub(max_block, 2)

\* block.block_number < max_block.saturating_sub(1)
IsBehind(block, max_block) == block.block_number < SaturatingSub(max_block, 1)

\* should_output of the sweep.
ShouldOutput(block, now, max_block) ==
  /\ ~block.output
  /\ \/ block.report_count >= ReportThreshold
     \/ AgeExceeded(block, now)
     \/ IsBehind(block, max_block)

\* The hashes the sweep finalizes.
Ready(bs, now) ==
  LET max_block == MaxBlock(bs)
  IN  {h \in DOMAIN bs : ShouldOutput(bs[h], now, max_block)}

\* The ledger after the sweep: block.output = true for every record of ready.
Sweep(bs, ready) ==
  [h \in DOMAIN bs |-> IF h \in ready THEN [bs[h] EXCEPT !.output = TRUE] ELSE bs[h]]

\* One tuple pushed to outputs.
OutputRow(hash, block, reporter) ==
  [timestamp |-> reporter.timestamp,
   node_name |-> reporter.node_name,
   node_id |-> reporter.node_id,
   block_number |-> block.block_number,
   block_hash |-> hash,
   propagation_time |-> block.lowest_prop_time]

\* Mutation: the reporters are visited from the last one to the first.
RowsOfReversed(hash, block) ==
  [i \in 1..Len(block.reporters) |->
     OutputRow(hash, block, block.reporters[Len(block.reporters) + 1 - i])]

\* for reporter in &block.reporters { outputs.push(..) }
RowsOf(hash, block) ==
  [i \in 1..Len(block.reporters) |-> OutputRow(hash, block, block.reporters[i])]

\* outputs after the sweep visited the ready hashes in the given order.
RECURSIVE CollectOutputs(_, _)
CollectOutputs(bs, order) ==
  IF order = <<>> THEN <<>>
  ELSE RowsOf(Head(order), bs[Head(order)]) \o CollectOutputs(bs, Tail(order))

(***************************************************************************)
(* Retention pass.                                                         *)
(***************************************************************************)
\* Mutation: the pass starts one record late.
NeedsCleanupLate(bs) == Cardinality(DOMAIN bs) > RetentionWindow + 1

\* block_list.len() > 100
NeedsCleanup(bs) == Cardinality(DOMAIN bs) > RetentionWindow

\* Mutation: the list is sorted by block number ascending.
DropSetsAscending(bs) ==
  IF ~NeedsCleanup(bs) THEN {{}}
  ELSE LET dom == DOMAIN bs
           Below(v) == {h \in dom : bs[h].block_number < v}
           At(v) == {h \in dom : bs[h].block_number = v}
           cut == CHOOSE v \in {bs[h].block_number : h \in dom} :
                    /\ Cardinality(Below(v)) < RetentionWindow
                    /\ Cardinality(Below(v)) + Cardinality(At(v)) >= RetentionWindow
           above == {h \in dom : bs[h].block_number > cut}
           extra == Cardinality(Below(cut)) + Cardinality(At(cut)) - RetentionWindow
       IN  {above \cup T : T \in KSubsets(At(cut), extra)}

\* The sets of hashes that block_list[100..] can hold: the list is sorted by
\* block number descending, records of equal number in hash map order.
DropSets(bs) ==
  IF ~NeedsCleanup(bs) THEN {{}}
  ELSE LET dom == DOMAIN bs
           Above(v) == {h \in dom : bs[h].block_number > v}
           At(v) == {h \in dom : bs[h].block_number = v}
           cut == CHOOSE v \in {bs[h].block_number : h \in dom} :
                    /\ Cardinality(Above(v)) < RetentionWindow
                    /\ Cardinality(Above(v)) + Cardinality(At(v)) >= RetentionWindow
           below == {h \in dom : bs[h].block_number < cut}
           extra == Cardinality(Above(cut)) + Cardinality(At(cut)) - RetentionWindow
       IN  {below \cup T : T \in KSubsets(At(cut), extra)}

\* blocks.remove(hash) for every hash of the dropped tail.
Cleanup(bs, drop) == Restrict(bs, DOMAIN bs \ drop)

(***************************************************************************)
(* History of the accepted imports of a record (not program state).        *)
(***************************************************************************)
\* count: accepted imports since the record was created;
\* best:  the smallest propagation time among them (0: none yet);
\* tied:  the ordinals that reported the hash at that smallest time;
\* last:  reporter's ordinal -> propagation time of its latest accepted import
\*        (0: not a reporter).
NoHistory ==
  [count |-> 0, best |-> 0, tied |-> {}, last |-> [n \in Ordinals |-> 0]]

NextHistory(old, after, node_idx, propagation_time) ==
  [count |-> old.count + 1,
   best  |-> IF old.best = 0 \/ propagation_time < old.best
             THEN propagation_time ELSE old.best,
   tied  |-> IF old.best = 0 \/ propagation_time < old.best THEN {node_idx}
             ELSE IF propagation_time = old.best THEN old.tied \cup {node_idx}
             ELSE old.tied,
   last  |-> [n \in Ordinals |->
                IF ~HasReporter(after, n) THEN 0
                ELSE IF n = node_idx THEN propagation_time
                ELSE old.last[n]]]

(***************************************************************************)
(* Initial states: TelemetryObserver::new loads both maps from their       *)
(* snapshot files, or starts them empty.                                   *)
(***************************************************************************)
\* A record of the snapshot an earlier run wrote after node 1 reported, at
\* time 0, each of RetentionWindow - 1 blocks of increasing height three times.
SnapshotReporter == BlockReporter(1, "unknown_node_1", "unknown_id", 0)

SnapshotRecord(i) ==
  [block_number |-> i,
   lowest_prop_time |-> 40,
   reporters |-> <<SnapshotReporter>>,
   first_seen |-> 0,
   report_count |-> ReportThreshold,
   output |-> TRUE]

SnapshotIndex(h) == CHOOSE i \in 1..(RetentionWindow - 1) : SnapshotHash(i) = h

SnapshotLedger == [h \in SnapshotHashes |-> SnapshotRecord(SnapshotIndex(h))]

EmptyLedger == [h \in {} |-> NewBlockInfo(0, 0)]

EmptyRegistry == [k \in {} |-> NodeInfo("", "")]

\* A snapshot file: absent, a complete JSON document, a document cut short or
\* otherwise not parseable, or a file that exists and cannot be opened.
FileStates == {"missing", "ok", "malformed", "unreadable"}

\* save_nodes / save_blocks: File::create and serde_json::to_writer of the map.
SavedNodes(ns) == [state |-> "ok", registry |-> ns]
SavedBlocks(bs) == [state |-> "ok", ledger |-> bs]

NoNodesFile(state) == [state |-> state, registry |-> EmptyRegistry]
NoBlocksFile(state) == [state |-> state, ledger |-> EmptyLedger]

\* nodes_file.exists() and File::open(..)? returns Err
OpenFails(file) == file.state = "unreadable"

\* serde_json::from_reader(reader).unwrap_or_default(), or HashMap::new()
LoadNodes(file) == IF file.state = "ok" THEN file.registry ELSE EmptyRegistry
LoadBlocks(file) == IF file.state = "ok" THEN file.ledger ELSE EmptyLedger

\* The task between two messages.
Idle ==
  [at |-> "idle", node_idx |-> 0, block_number |-> 0, block_hash |-> "",
   propagation_time |-> 0, name |-> "", node_id |-> "", rows |-> <<>>]

\* A step taken while no handler is running; it leaves the mutexes free. The
\* handlers below that run from dispatch to return in one step are such steps.
BetweenMessages == task.at = "idle" /\ UNCHANGED <<held, task>>

\* The state after TelemetryObserver::new loaded the given ledger and run()
\* subscribed to the feed.
Loaded(ledger) ==
  /\ nodes = EmptyRegistry
  /\ blocks = ledger
  /\ clock = 0
  /\ outputs = <<>>
  /\ crashed = FALSE
  /\ phase = "receiving"
  /\ waited = 0
  /\ held = {}
  /\ task = Idle
  /\ nodesFile = NoNodesFile("missing")
  /\ blocksFile = IF ledger = EmptyLedger THEN NoBlocksFile("missing") ELSE SavedBlocks(ledger)
  /\ emitted = {}
  /\ lastLowest = [h \in LiveHashes |-> 0]
  /\ history = [h \in {} |-> NoHistory]
  /\ rejected = FALSE

\* No snapshot files: both maps start empty.
Init == Loaded(EmptyLedger)

\* The ledger snapshot of an earlier run is loaded.
InitSnapshot == Loaded(SnapshotLedger)

(***************************************************************************)
(* Actions: one per kind of message process_message dispatches, and the    *)
(* wall clock.                                                             *)
(***************************************************************************)
\* process_node_message on a well-formed [3, [node_idx, [name, _, _, _, id, ..]]].
NodeAnnounce(node_idx, name, node_id) ==
  /\ ~crashed /\ BetweenMessages /\ phase = "receiving"
  /\ nodes' = InsertNode(nodes, node_idx, name, node_id)
  /\ nodesFile' = SavedNodes(nodes')
  /\ outputs' = <<>>
  /\ rejected' = FALSE
  /\ UNCHANGED <<blocks, clock, crashed, phase, waited, blocksFile, emitted, lastLowest, history>>

\* process_node_message on [3, x] where x is not [node_idx, [five or more
\* fields]]: nothing is stored, and save_nodes still runs.
NodeMessageIgnored ==
  /\ ~crashed /\ BetweenMessages /\ phase = "receiving"
  /\ nodesFile' = SavedNodes(nodes)
  /\ outputs' = <<>>
  /\ rejected' = FALSE
  /\ UNCHANGED <<nodes, blocks, clock, crashed, phase, waited, blocksFile, emitted,
                 lastLowest, history>>

\* A message process_message drops: another type, a node message of fewer
\* than two elements, or a block import whose shape is not the expected one.
IgnoredMessage ==
  /\ ~crashed /\ BetweenMessages /\ phase = "receiving"
  /\ outputs' = <<>>
  /\ rejected' = FALSE
  /\ UNCHANGED <<nodes, blocks, clock, crashed, phase, waited, nodesFile, blocksFile,
                 emitted, lastLowest, history>>

\* Mutation: the validation comes after entry().or_insert().
BlockImportRejectedAfterInsert(node_idx, block_number, block_hash, propagation_time) ==
  /\ ~crashed /\ BetweenMessages /\ phase = "receiving"
  /\ block_hash = "" \/ propagation_time = 0
  /\ blocks' = [h \in DOMAIN blocks \cup {block_hash} |->
                  EntryOrInsert(blocks, h, block_number, clock)]
  /\ outputs' = <<>>
  /\ rejected' = TRUE
  /\ UNCHANGED <<nodes, clock, crashed, phase, waited, nodesFile, blocksFile, emitted,
                 lastLowest, history>>

\* process_block_import returning at the validation of hash and propagation time.
BlockImportRejected(node_idx, block_number, block_hash, propagation_time) ==
  /\ ~crashed /\ BetweenMessages /\ phase = "receiving"
  /\ block_hash = "" \/ propagation_time = 0
  /\ outputs' = <<>>
  /\ rejected' = TRUE
  /\ UNCHANGED <<nodes, blocks, clock, crashed, phase, waited, nodesFile, blocksFile,
                 emitted, lastLowest, history>>

\* process_block_import past the validation.
BlockImport(node_idx, block_number, block_hash, propagation_time) ==
  /\ ~crashed /\ BetweenMessages /\ phase = "receiving"
  /\ ~(block_hash = "" \/ propagation_time = 0)
  /\ block_hash \in DOMAIN blocks => blocks[block_hash].report_count < MaxReports
  /\ rejected' = FALSE
  /\ LET now == clock
         reporter == BlockReporter(node_idx, LookupName(nodes, node_idx),
                                   LookupId(nodes, node_idx), now)
         counted == RecordReport(blocks, reporter, block_number, block_hash,
                                 propagation_time, now)
         ready == Ready(counted, now)
         swept == Sweep(counted, ready)
         old == IF block_hash \in DOMAIN history THEN history[block_hash] ELSE NoHistory
         hist == NextHistory(old, counted[block_hash], node_idx, propagation_time)
     IN  \/ \* a build with overflow checks panics in the sweep
            /\ \E h \in DOMAIN counted : AgeUnderflows(counted[h], now)
            /\ crashed' = TRUE
            /\ outputs' = <<>>
            /\ UNCHANGED <<nodes, blocks, clock, phase, waited, nodesFile, blocksFile,
                           emitted, lastLowest, history>>
         \/ \* the sweep and the retention pass complete
            /\ \E order \in Orders(ready), drop \in DropSets(swept) :
                 /\ blocks' = Cleanup(swept, drop)
                 /\ outputs' = CollectOutputs(counted, order)
            /\ emitted' = emitted \cup {h \in ready : Len(counted[h].reporters) > 0}
            /\ lastLowest' = [lastLowest EXCEPT ![block_hash] =
                                IF block_hash \in DOMAIN blocks'
                                THEN blocks'[block_hash].lowest_prop_time ELSE @]
            /\ history' = [h \in (DOMAIN history \cup {block_hash}) \cap DOMAIN blocks' |->
                             IF h = block_hash THEN hist ELSE history[h]]
            /\ blocksFile' = SavedBlocks(blocks')
            /\ UNCHANGED <<nodes, clock, crashed, phase, waited, nodesFile>>

\* The wall clock moves to another reading, forwards or backwards.
ClockStep(t) ==
  /\ ~crashed /\ BetweenMessages
  /\ t # clock
  /\ clock' = t
  /\ UNCHANGED <<nodes, blocks, outputs, crashed, phase, waited, nodesFile, blocksFile,
                 emitted, lastLowest, history, rejected>>

\* The messages of a feed whose announcements come from the ordinals in
\* announcers with the identities in idents, and whose accepted block imports
\* are the elements of imports, <<node_idx, block_number, block_hash,
\* propagation_time>>; the wall clock takes the readings in readings.
Feed(announcers, idents, imports, readings) ==
  \/ \E n \in announcers, id \in idents : NodeAnnounce(n, id[1], id[2])
  \/ IgnoredMessage
  \/ NodeMessageIgnored
  \/ \E m \in RejectedImports : BlockImportRejected(m[1], m[2], m[3], m[4])
  \/ \E m \in imports : BlockImport(m[1], m[2], m[3], m[4])
  \/ \E t \in readings : ClockStep(t)

\* One block reported by every node at every propagation time.
Next == Feed({1}, {<<"Alice", "idA">>}, Ordinals \X {1} \X {"0xAA"} \X PropTimes,
             {0, AgeThreshold + 1})

Spec == Init /\ [][Next]_vars

\* Two blocks reported by node 1: 0xAA at height 0, 0xBB at the heights 0, 1, 2.
SweepImports ==
  ({1} \X {0} \X {"0xAA"} \X {40, InitialLowestPropTime + 1})
    \cup ({1} \X {0, 1, 2} \X {"0xBB"} \X {40})

NextSweep == Feed({2}, {<<"Alice", "idA">>}, SweepImports, ClockReadings)

SpecSweep == Init /\ [][NextSweep]_vars

\* On top of a loaded snapshot of RetentionWindow - 1 records: two old blocks
\* at height 0, below every height of the snapshot.
RetentionImports ==
  {1} \X {0} \X LiveHashes \X {40, 50}

NextRetention ==
  Feed({2}, {<<"Alice", "idA">>}, RetentionImports, {0, AgeThreshold + 1})

SpecRetention == InitSnapshot /\ [][NextRetention]_vars

\* A loaded snapshot of RetentionWindow - 1 finalized records of one height.
FlatLedger == [h \in SnapshotHashes |-> [SnapshotRecord(1) EXCEPT !.block_number = 2]]

InitFlat == Loaded(FlatLedger)

\* On top of it: two blocks one or two heights below the snapshot.
EvictionImports == {1} \X {0, 1} \X LiveHashes \X {40}

NextEviction ==
  Feed({2}, {<<"Alice", "idA">>}, EvictionImports, {0, AgeThreshold + 1})

SpecEviction == InitFlat /\ [][NextEviction]_vars

(***************************************************************************)
(* Failures of the environment: the CSV file, the process, the feed.       *)
(***************************************************************************)
\* What process_block_import computes under the blocks mutex.
Aggregate(node_idx, block_number, block_hash, propagation_time, now) ==
  LET reporter == BlockReporter(node_idx, LookupName(nodes, node_idx),
                                LookupId(nodes, node_idx), now)
      counted == RecordReport(blocks, reporter, block_number, block_hash,
                              propagation_time, now)
      ready == Ready(counted, now)
  IN  [counted |-> counted, ready |-> ready, swept |-> Sweep(counted, ready)]

\* The history of the record of block_hash after this accepted import.
Accounted(counted, node_idx, block_hash, propagation_time) ==
  LET old == IF block_hash \in DOMAIN history THEN history[block_hash] ELSE NoHistory
  IN  NextHistory(old, counted[block_hash], node_idx, propagation_time)

\* process_block_import when csv_writer.write_record or flush returns Err:
\* the ? returns from the handler before save_blocks; a prefix of the rows
\* may have reached the file.
BlockImportSinkFailure(node_idx, block_number, block_hash, propagation_time) ==
  /\ ~crashed /\ BetweenMessages /\ phase = "receiving"
  /\ ~(block_hash = "" \/ propagation_time = 0)
  /\ block_hash \in DOMAIN blocks => blocks[block_hash].report_count < MaxReports
  /\ LET agg == Aggregate(node_idx, block_number, block_hash, propagation_time, clock)
     IN  /\ \E order \in Orders(agg.ready), drop \in DropSets(agg.swept) :
              LET rows == CollectOutputs(agg.counted, order)
              IN  /\ rows # <<>>
                  /\ blocks' = Cleanup(agg.swept, drop)
                  /\ \E k \in 0..(Len(rows) - 1) : outputs' = SubSeq(rows, 1, k)
         /\ emitted' = emitted \cup {outputs'[i].block_hash : i \in 1..Len(outputs')}
         /\ lastLowest' = [lastLowest EXCEPT ![block_hash] =
                             IF block_hash \in DOMAIN blocks'
                             THEN blocks'[block_hash].lowest_prop_time ELSE @]
         /\ history' = [h \in (DOMAIN history \cup {block_hash}) \cap DOMAIN blocks' |->
                          IF h = block_hash
                          THEN Accounted(agg.counted, node_idx, block_hash, propagation_time)
                          ELSE history[h]]
  /\ rejected' = FALSE
  /\ UNCHANGED <<nodes, clock, crashed, phase, waited, nodesFile, blocksFile>>

\* The process is terminated from outside inside process_block_import, after
\* csv_writer.flush() and before save_blocks has written the whole document:
\* blocks_file is as before, or was truncated by File::create and is cut short.
BlockImportKilled(node_idx, block_number, block_hash, propagation_time) ==
  /\ ~crashed /\ BetweenMessages /\ phase = "receiving"
  /\ ~(block_hash = "" \/ propagation_time = 0)
  /\ block_hash \in DOMAIN blocks => blocks[block_hash].report_count < MaxReports
  /\ LET agg == Aggregate(node_idx, block_number, block_hash, propagation_time, clock)
     IN  /\ \E order \in Orders(agg.ready) : outputs' = CollectOutputs(agg.counted, order)
         /\ emitted' = emitted \cup {h \in agg.ready : Len(agg.counted[h].reporters) > 0}
  /\ blocksFile' \in {blocksFile, NoBlocksFile("malformed")}
  /\ phase' = "stopped"
  /\ nodes' = EmptyRegistry
  /\ blocks' = EmptyLedger
  /\ history' = [h \in {} |-> NoHistory]
  /\ rejected' = FALSE
  /\ UNCHANGED <<clock, crashed, waited, nodesFile, lastLowest>>

\* The process is terminated from outside between two messages.
Terminate ==
  /\ ~crashed /\ BetweenMessages
  /\ phase \in {"connecting", "subscribing", "receiving", "refused", "dropped"}
  /\ phase' = "stopped"
  /\ nodes' = EmptyRegistry
  /\ blocks' = EmptyLedger
  /\ outputs' = <<>>
  /\ history' = [h \in {} |-> NoHistory]
  /\ rejected' = FALSE
  /\ UNCHANGED <<clock, crashed, waited, nodesFile, blocksFile, emitted, lastLowest>>

\* main: TelemetryObserver::new(config).await?, then run().
Startup ==
  /\ ~crashed /\ BetweenMessages
  /\ phase = "stopped"
  /\ IF OpenFails(nodesFile) \/ OpenFails(blocksFile)
     THEN /\ phase' = "failed"
          /\ UNCHANGED <<nodes, blocks>>
     ELSE /\ phase' = "connecting"
          /\ nodes' = LoadNodes(nodesFile)
          /\ blocks' = LoadBlocks(blocksFile)
  /\ waited' = 0
  /\ outputs' = <<>>
  /\ UNCHANGED <<clock, crashed, nodesFile, blocksFile, emitted, lastLowest, history, rejected>>

\* What the steps of run() around the receive loop leave alone.
AroundReceiveLoop ==
  UNCHANGED <<nodes, blocks, clock, outputs, crashed, nodesFile, blocksFile,
              emitted, lastLowest, history, rejected>>

\* ws_client::connect returns Ok.
ConnectOk ==
  /\ ~crashed /\ BetweenMessages /\ phase = "connecting"
  /\ phase' = "subscribing"
  /\ UNCHANGED waited
  /\ AroundReceiveLoop

\* ws_client::connect returns Err.
ConnectFail ==
  /\ ~crashed /\ BetweenMessages /\ phase = "connecting"
  /\ phase' = "refused"
  /\ waited' = 0
  /\ AroundReceiveLoop

\* sender.unbounded_send(subscribe) returns Ok.
SubscribeOk ==
  /\ ~crashed /\ BetweenMessages /\ phase = "subscribing"
  /\ phase' = "receiving"
  /\ UNCHANGED waited
  /\ AroundReceiveLoop

\* sender.unbounded_send(subscribe) returns Err: continue.
SubscribeFail ==
  /\ ~crashed /\ BetweenMessages /\ phase = "subscribing"
  /\ phase' = "connecting"
  /\ waited' = 0
  /\ AroundReceiveLoop

\* receiver.next() yields Some(Err(_)) or None: break.
StreamEnds ==
  /\ ~crashed /\ BetweenMessages /\ phase = "receiving"
  /\ phase' = "dropped"
  /\ waited' = 0
  /\ AroundReceiveLoop

\* tokio::time::sleep(5 s) in the Err arm of connect.
SleepAfterRefusal ==
  /\ ~crashed /\ BetweenMessages /\ phase = "refused"
  /\ phase' = "dropped"
  /\ waited' = waited + ReconnectDelay
  /\ AroundReceiveLoop

\* sleep(5 s) at the end of the loop body.
SleepBeforeRetry ==
  /\ ~crashed /\ BetweenMessages /\ phase = "dropped"
  /\ phase' = "connecting"
  /\ waited' = waited + ReconnectDelay
  /\ AroundReceiveLoop

\* A registry and a ledger that an earlier run left in the snapshot files.
StoredRegistry == InsertNode(EmptyRegistry, 1, "Alice", "idA")
StoredLedger == [h \in {"0xBB"} |-> SnapshotRecord(1)]

\* The process is not started yet; each snapshot file is in any state.
InitSystem ==
  /\ nodes = EmptyRegistry
  /\ blocks = EmptyLedger
  /\ clock = 0
  /\ outputs = <<>>
  /\ crashed = FALSE
  /\ phase = "stopped"
  /\ waited = 0
  /\ held = {}
  /\ task = Idle
  /\ nodesFile \in {NoNodesFile(st) : st \in FileStates \ {"ok"}} \cup {SavedNodes(StoredRegistry)}
  /\ blocksFile \in {NoBlocksFile(st) : st \in FileStates \ {"ok"}} \cup {SavedBlocks(StoredLedger)}
  /\ emitted = {}
  /\ lastLowest = [h \in LiveHashes |-> 0]
  /\ history = [h \in {} |-> NoHistory]
  /\ rejected = FALSE

\* One block reported by node 1, with every failure of the environment.
SystemImports == {1} \X {1} \X {"0xAA"} \X {40}

NextSystem ==
  \/ Feed({1}, {<<"Alice", "idA">>}, SystemImports, {0, AgeThreshold + 1})
  \/ \E m \in SystemImports : BlockImportSinkFailure(m[1], m[2], m[3], m[4])
  \/ \E m \in SystemImports : BlockImportKilled(m[1], m[2], m[3], m[4])
  \/ Terminate
  \/ Startup
  \/ ConnectOk
  \/ ConnectFail
  \/ SubscribeOk
  \/ SubscribeFail
  \/ StreamEnds
  \/ SleepAfterRefusal
  \/ SleepBeforeRetry

SpecSystem == InitSystem /\ [][NextSystem]_vars

(***************************************************************************)
(* The two handlers step by step: every lock().await, every guard that     *)
(* goes out of scope.                                                      *)
(***************************************************************************)
\* lock().await on a mutex: the task goes on when the mutex is free, and
\* waits for ever when it holds the guard itself.
Acquire(mutex, from) ==
  /\ ~crashed /\ phase = "receiving"
  /\ task.at = from
  /\ mutex \notin held
  /\ held' = held \cup {mutex}

\* A guard is dropped.
Release(mutex, from) ==
  /\ ~crashed /\ phase = "receiving"
  /\ task.at = from
  /\ held' = held \ {mutex}

\* The task moves on to a position.
Goto(to) == task' = [task EXCEPT !.at = to]

\* What a lock or unlock step that touches no data leaves alone.
DataUnchanged ==
  UNCHANGED <<nodes, blocks, clock, outputs, crashed, phase, waited, nodesFile,
              blocksFile, emitted, lastLowest, history, rejected>>

\* process_block_import up to let now = ..: the message passed the validation.
ImportBegin(node_idx, block_number, block_hash, propagation_time) ==
  /\ ~crashed /\ phase = "receiving"
  /\ task.at = "idle"
  /\ ~(block_hash = "" \/ propagation_time = 0)
  /\ block_hash \in DOMAIN blocks => blocks[block_hash].report_count < MaxReports
  /\ task' = [Idle EXCEPT !.at = "lock_nodes", !.node_idx = node_idx,
                          !.block_number = block_number, !.block_hash = block_hash,
                          !.propagation_time = propagation_time]
  /\ outputs' = <<>>
  /\ rejected' = FALSE
  /\ UNCHANGED <<nodes, blocks, clock, crashed, phase, waited, nodesFile, blocksFile,
                 held, emitted, lastLowest, history>>

\* let nodes = self.nodes.lock().await
ImportLockNodes == Acquire("nodes", "lock_nodes") /\ Goto("lookup") /\ DataUnchanged

\* Mutation: drop(nodes) is missing.
ImportKeepNodes == Release("none", "lookup") /\ Goto("lock_blocks") /\ DataUnchanged

\* drop(nodes)
ImportDropNodes == Release("nodes", "lookup") /\ Goto("lock_blocks") /\ DataUnchanged

\* let mut blocks = self.blocks.lock().await
ImportLockBlocks == Acquire("blocks", "lock_blocks") /\ Goto("aggregate") /\ DataUnchanged

\* The record update, the sweep and the retention pass, then drop(blocks); a
\* build with overflow checks panics in the sweep and unwinds.
ImportDropBlocks ==
  LET agg == Aggregate(task.node_idx, task.block_number, task.block_hash,
                       task.propagation_time, clock)
  IN  \/ /\ \E h \in DOMAIN agg.counted : AgeUnderflows(agg.counted[h], clock)
         /\ ~crashed /\ phase = "receiving"
         /\ task.at = "aggregate"
         /\ crashed' = TRUE
         /\ held' = {}
         /\ task' = Idle
         /\ UNCHANGED <<nodes, blocks, clock, outputs, phase, waited, nodesFile,
                        blocksFile, emitted, lastLowest, history, rejected>>
      \/ /\ \E order \in Orders(agg.ready), drop \in DropSets(agg.swept) :
              LET rows == CollectOutputs(agg.counted, order)
              IN  /\ blocks' = Cleanup(agg.swept, drop)
                  /\ Release("blocks", "aggregate")
                  /\ task' = [task EXCEPT !.at = IF rows = <<>> THEN "save" ELSE "lock_csv",
                                           !.rows = rows]
         /\ lastLowest' = [lastLowest EXCEPT ![task.block_hash] =
                             IF task.block_hash \in DOMAIN blocks'
                             THEN blocks'[task.block_hash].lowest_prop_time ELSE @]
         /\ history' = [h \in (DOMAIN history \cup {task.block_hash}) \cap DOMAIN blocks' |->
                          IF h = task.block_hash
                          THEN Accounted(agg.counted, task.node_idx, task.block_hash,
                                         task.propagation_time)
                          ELSE history[h]]
         /\ UNCHANGED <<nodes, clock, outputs, crashed, phase, waited, nodesFile,
                        blocksFile, emitted, rejected>>

\* let mut csv_writer = self.csv_writer.lock().await
ImportLockCsv == Acquire("csv_writer", "lock_csv") /\ Goto("write") /\ DataUnchanged

\* write_record for every row, flush, and the end of the if block.
ImportWriteCsv ==
  /\ Release("csv_writer", "write") /\ Goto("save")
  /\ outputs' = task.rows
  /\ emitted' = emitted \cup {task.rows[i].block_hash : i \in 1..Len(task.rows)}
  /\ UNCHANGED <<nodes, blocks, clock, crashed, phase, waited, nodesFile, blocksFile,
                 lastLowest, history, rejected>>

\* save_blocks: let blocks = self.blocks.lock().await
ImportSaveLock == Acquire("blocks", "save") /\ Goto("saving") /\ DataUnchanged

\* save_blocks: the document is written; the guard goes at the return.
ImportSaveDone ==
  /\ Release("blocks", "saving") /\ Goto("lock_count")
  /\ blocksFile' = SavedBlocks(blocks)
  /\ UNCHANGED <<nodes, blocks, clock, outputs, crashed, phase, waited, nodesFile,
                 emitted, lastLowest, history, rejected>>

\* let blocks = self.blocks.lock().await for the tracking log line
ImportCountLock == Acquire("blocks", "lock_count") /\ Goto("count") /\ DataUnchanged

\* drop(blocks), and the return of process_block_import
ImportCountDrop ==
  /\ Release("blocks", "count")
  /\ task' = Idle
  /\ DataUnchanged

\* process_node_message up to the insert, on a well-formed node message.
AnnounceBegin(node_idx, name, node_id) ==
  /\ ~crashed /\ phase = "receiving"
  /\ task.at = "idle"
  /\ task' = [Idle EXCEPT !.at = "lock_store", !.node_idx = node_idx,
                          !.name = name, !.node_id = node_id]
  /\ outputs' = <<>>
  /\ rejected' = FALSE
  /\ UNCHANGED <<nodes, blocks, clock, crashed, phase, waited, nodesFile, blocksFile,
                 held, emitted, lastLowest, history>>

\* let mut nodes = self.nodes.lock().await
AnnounceLockNodes == Acquire("nodes", "lock_store") /\ Goto("store") /\ DataUnchanged

\* nodes.insert(..), and the end of the if block.
AnnounceStore ==
  /\ Release("nodes", "store") /\ Goto("save_nodes")
  /\ nodes' = InsertNode(nodes, task.node_idx, task.name, task.node_id)
  /\ UNCHANGED <<blocks, clock, outputs, crashed, phase, waited, nodesFile, blocksFile,
                 emitted, lastLowest, history, rejected>>

\* save_nodes: let nodes = self.nodes.lock().await
AnnounceSaveLock == Acquire("nodes", "save_nodes") /\ Goto("saving_nodes") /\ DataUnchanged

\* save_nodes: the document is written; the guard goes at the return.
AnnounceSaveDone ==
  /\ Release("nodes", "saving_nodes")
  /\ task' = Idle
  /\ nodesFile' = SavedNodes(nodes)
  /\ UNCHANGED <<nodes, blocks, clock, outputs, crashed, phase, waited, blocksFile,
                 emitted, lastLowest, history, rejected>>

\* One block reported by two nodes, one node announcing itself.
LockImports == {1, 2} \X {1} \X {"0xAA"} \X {40}

NextLocks ==
  \/ \E m \in LockImports : ImportBegin(m[1], m[2], m[3], m[4])
  \/ ImportLockNodes
  \/ ImportDropNodes
  \/ ImportLockBlocks
  \/ ImportDropBlocks
  \/ ImportLockCsv
  \/ ImportWriteCsv
  \/ ImportSaveLock
  \/ ImportSaveDone
  \/ ImportCountLock
  \/ ImportCountDrop
  \/ AnnounceBegin(1, "Alice", "idA")
  \/ AnnounceLockNodes
  \/ AnnounceStore
  \/ AnnounceSaveLock
  \/ AnnounceSaveDone
  \/ \E t \in {0, AgeThreshold + 1} : ClockStep(t)

SpecLocks == Init /\ [][NextLocks]_vars

(***************************************************************************)
(* Properties.                                                             *)
(***************************************************************************)
\* The number of rows of a row list that carry the hash.
RowsFor(hash, rows) == Cardinality({i \in 1..Len(rows) : rows[i].block_hash = hash})

\* A step that processes a message (the clock does not move in it).
MessageStep == clock' = clock

\* The ordinals of the reporters of a record.
ReporterOrdinals(block) == {block.reporters[i].node_idx : i \in 1..Len(block.reporters)}

\* C1 as stated: once rows were emitted for a hash, no later message emits a
\* row for that hash, whatever happened to its record in between.
C1_NeverEmittedAgain ==
  [][MessageStep => \A h \in emitted : RowsFor(h, outputs') = 0]_vars

\* C1 amended: a message emits no row for a hash whose record is in the ledger
\* and finalized when the message arrives.
C1_NoRowsWhileFinalized ==
  [][MessageStep =>
       \A h \in DOMAIN blocks : blocks[h].output => RowsFor(h, outputs') = 0]_vars

\* A finalized record whose rows were emitted received a later import, which
\* emitted no row for it.
C1_Witness ==
  /\ "0xAA" \in DOMAIN blocks /\ "0xAA" \in emitted
  /\ blocks["0xAA"].output
  /\ blocks["0xAA"].report_count >= 2
  /\ RowsFor("0xAA", outputs) = 0

\* C2: the ledger holds at most RetentionWindow records after every message.
C2_LedgerBounded == Cardinality(DOMAIN blocks) <= RetentionWindow

\* The ledger is full after the retention pass dropped a record of this run.
C2_Witness ==
  /\ Cardinality(DOMAIN blocks) = RetentionWindow
  /\ \E h \in emitted : h \notin DOMAIN blocks

\* C3 as stated: the latest accepted import of every reporter of a record
\* carried the record's lowest propagation time.
C3_LatestEqualsLowest ==
  \A h \in DOMAIN history : \A n \in ReporterOrdinals(blocks[h]) :
    history[h].last[n] = blocks[h].lowest_prop_time

\* C3 amended: every reporter of a record has reported the hash at the
\* record's lowest propagation time, and its latest accepted import carried
\* that time or a larger one.
C3_LatestAtLeastLowest ==
  \A h \in DOMAIN history : \A n \in ReporterOrdinals(blocks[h]) :
    /\ n \in history[h].tied
    /\ history[h].best = blocks[h].lowest_prop_time
    /\ history[h].last[n] >= blocks[h].lowest_prop_time

\* A reporter stays in the set after it reported the hash again with a
\* larger propagation time.
C3_Witness ==
  \E h \in DOMAIN history : \E n \in ReporterOrdinals(blocks[h]) :
    history[h].last[n] > blocks[h].lowest_prop_time

\* C4: every reporter of a record reported the hash at the propagation time
\* that is the record's lowest, and no two reporters share an ordinal.
C4_ReportersAtLowest ==
  \A h \in DOMAIN history :
    LET rs == blocks[h].reporters
    IN  /\ \A i \in 1..Len(rs) :
             /\ rs[i].node_idx \in history[h].tied
             /\ history[h].best = blocks[h].lowest_prop_time
        /\ \A i, j \in 1..Len(rs) : rs[i].node_idx = rs[j].node_idx => i = j

\* Two reporters are tied, one of them reported the hash twice.
C4_Witness ==
  \E h \in DOMAIN history :
    /\ Len(blocks[h].reporters) = 2
    /\ blocks[h].report_count = 3
    /\ history[h].tied = ReporterOrdinals(blocks[h])

\* C5 as stated: the lowest propagation time stored for a hash after an
\* accepted import is never above the one stored after an earlier import.
C5_LowestNeverRises ==
  [][\A h \in LiveHashes :
       lastLowest[h] # 0 /\ lastLowest'[h] # 0 => lastLowest'[h] <= lastLowest[h]]_vars

\* C5 amended: the lowest propagation time of a record never rises while the
\* record stays in the ledger.
C5_LowestNeverRisesInLedger ==
  [][\A h \in DOMAIN history \cap DOMAIN history' :
       blocks'[h].lowest_prop_time <= blocks[h].lowest_prop_time]_vars

\* A record was reported at 50 and at 40 and stores 40.
C5_Witness ==
  \E h \in DOMAIN history :
    /\ blocks[h].lowest_prop_time = 40
    /\ \E n \in Ordinals : history[h].last[n] = 50

\* An accepted import of the hash completed in this step (no record is
\* dropped and created again within one step).
Imported(h) ==
  /\ h \in DOMAIN history'
  /\ h \in DOMAIN history => history'[h].count = history[h].count + 1

\* C6: the import that raises the count of an open record to ReportThreshold
\* finalizes it and emits one row per ordinal tied at the smallest propagation
\* time reported for the hash, each row with that time.
C6_ThirdReportEmitsTied ==
  [][\A h \in DOMAIN history \cap DOMAIN history' :
       (/\ Imported(h)
        /\ ~blocks[h].output
        /\ blocks'[h].report_count = ReportThreshold)
       => /\ blocks'[h].output
          /\ RowsFor(h, outputs') = Cardinality(history'[h].tied)
          /\ \A i \in 1..Len(outputs') :
               outputs'[i].block_hash = h
                 => outputs'[i].propagation_time = history'[h].best]_vars

\* A record in the ledger, open, with a single report, within one block of
\* the tallest height.
OpenSingle(h) ==
  /\ h \in DOMAIN blocks
  /\ ~blocks[h].output
  /\ blocks[h].report_count = 1
  /\ blocks[h].block_number >= SaturatingSub(MaxBlock(blocks), 1)

ExpectedIdentity(ns, n) ==
  IF ToString(n) \in DOMAIN ns
  THEN <<ns[ToString(n)].name, ns[ToString(n)].node_id>>
  ELSE <<"unknown_node_" \o ToString(n), "unknown_id">>

\* The rows of a row list that carry the hash, in order.
RowsOfHash(hash, rows) ==
  LET Carries(row) == row.block_hash = hash
  IN  SelectSeq(rows, Carries)

\* C8: a reporter enters a record with the name and id the registry holds for
\* its ordinal when its import is processed, keeps them afterwards, and every
\* emitted row carries the name, id and timestamp of its reporter; a node
\* announcement leaves the ledger alone.
C8_RowsCarryIdentityAtReport ==
  [][MessageStep =>
       /\ \A h \in DOMAIN blocks' : \A i \in 1..Len(blocks'[h].reporters) :
            LET r == blocks'[h].reporters[i]
            IN  \/ /\ h \in DOMAIN blocks
                   /\ \E j \in 1..Len(blocks[h].reporters) : blocks[h].reporters[j] = r
                \/ <<r.node_name, r.node_id>> = ExpectedIdentity(nodes, r.node_idx)
       /\ \A h \in LiveHashes :
            LET rows == RowsOfHash(h, outputs')
            IN  rows # <<>> =>
                  /\ h \in DOMAIN blocks'
                  /\ Len(rows) = Len(blocks'[h].reporters)
                  /\ \A i \in 1..Len(rows) :
                       /\ rows[i].node_name = blocks'[h].reporters[i].node_name
                       /\ rows[i].node_id = blocks'[h].reporters[i].node_id
                       /\ rows[i].timestamp = blocks'[h].reporters[i].timestamp
       /\ nodes' # nodes => blocks' = blocks]_vars

\* Node 1 was announced between its report and the finalization of the
\* record: its emitted row still names it by the default, next to the row of
\* node 2, which never announced itself.
C8_Witness ==
  /\ "1" \in DOMAIN nodes
  /\ \E i \in 1..Len(outputs) : outputs[i].node_name = "unknown_node_1"
  /\ \E i \in 1..Len(outputs) : outputs[i].node_name = "unknown_node_2"

\* C9: an import that leaves more than RetentionWindow records to the
\* retention pass ends with exactly RetentionWindow records, none of them
\* with a lower block number than a dropped one.
C9_KeepsHighest ==
  [][\A m \in RetentionImports :
       (BlockImport(m[1], m[2], m[3], m[4]) /\ ~crashed') =>
         LET all == DOMAIN blocks \cup {m[3]}
             num(h) == IF h \in DOMAIN blocks THEN blocks[h].block_number ELSE m[2]
         IN  Cardinality(all) > RetentionWindow =>
               /\ DOMAIN blocks' \subseteq all
               /\ Cardinality(DOMAIN blocks') = RetentionWindow
               /\ \A k \in DOMAIN blocks' : \A d \in all \ DOMAIN blocks' :
                    num(k) >= num(d)]_vars

\* The pass dropped 0xBB and kept 0xAA, of the same height, and the snapshot.
C9_Witness ==
  /\ Cardinality(DOMAIN blocks) = RetentionWindow
  /\ "0xAA" \in DOMAIN blocks
  /\ "0xBB" \in emitted /\ "0xBB" \notin DOMAIN blocks
  /\ SnapshotHashes \subseteq DOMAIN blocks

\* C10: report_count is the number of accepted imports of the hash since its
\* record was created.
C10_CountsEveryImport ==
  \A h \in DOMAIN history : blocks[h].report_count = history[h].count

\* A finalized record counted three reports, the latest of which left its
\* single reporter alone.
C10_Witness ==
  \E h \in DOMAIN history :
    /\ blocks[h].output
    /\ blocks[h].report_count = ReportThreshold
    /\ Len(blocks[h].reporters) = 1
    /\ \E n \in Ordinals : history[h].last[n] > blocks[h].lowest_prop_time

\* C11: a block import with an empty hash or a zero propagation time changes
\* neither the registry nor the ledger, finalizes and evicts nothing, emits no
\* row and leaves the process running; no record is ever kept under the empty
\* hash or with a zero propagation time.
C11_RejectedImportChangesNothing ==
  [][/\ rejected' =>
          /\ nodes' = nodes
          /\ blocks' = blocks
          /\ emitted' = emitted
          /\ history' = history
          /\ outputs' = <<>>
          /\ ~crashed'
     /\ "" \notin DOMAIN blocks'
     /\ \A h \in DOMAIN blocks' : blocks'[h].lowest_prop_time > 0]_vars

\* A rejected import was processed while an open record with one report and a
\* finalized one were in the ledger.
C11_Witness ==
  /\ rejected
  /\ \E h \in DOMAIN blocks : ~blocks[h].output /\ blocks[h].report_count = 1
  /\ \E h \in DOMAIN blocks : blocks[h].output

\* A step in which process_message handles a message, to its end or to the
\* point where the process is terminated.
HandlerStep == MessageStep /\ phase = "receiving" /\ phase' # "dropped"

\* C12: rows of a hash that are in the CSV file are not appended again, also
\* across a termination of the process and a restart from the snapshot.
C12_NoRowsAgainAcrossRestart ==
  [][HandlerStep => \A h \in emitted : RowsFor(h, outputs') = 0]_vars

\* C13: when an accepted block import has been processed, blocks_file holds
\* the ledger in memory, also when the write to the CSV file failed, and the
\* process keeps receiving.
C13_SnapshotFollowsLedger ==
  [][(HandlerStep /\ blocks' # blocks /\ phase' # "stopped") =>
       /\ blocksFile' = [state |-> "ok", ledger |-> blocks']
       /\ phase' = "receiving"
       /\ ~crashed']_vars

\* C14: startup gives each store the content of its snapshot when that is a
\* well-formed document and the empty store otherwise, and never fails.
C14_StartupNeverFails ==
  [][(phase = "stopped" /\ phase' # "stopped") =>
       /\ phase' # "failed"
       /\ nodes' = IF nodesFile.state = "ok" THEN nodesFile.registry ELSE EmptyRegistry
       /\ blocks' = IF blocksFile.state = "ok" THEN blocksFile.ledger ELSE EmptyLedger]_vars

\* C15: run() makes its next connection attempt exactly ReconnectDelay
\* seconds after a failed connect, a failed subscription or the end of the
\* stream.
C15_RetriesAfterFixedDelay ==
  [][(phase' = "connecting" /\ phase \in {"subscribing", "dropped"}) =>
       waited' = ReconnectDelay]_vars

\* maxBlockNumber - 1, taken as 0 when maxBlockNumber is 0.
OneBelow(max_number) == IF max_number = 0 THEN 0 ELSE max_number - 1

\* The largest block number of a non-empty ledger.
Tallest(bs) ==
  CHOOSE n \in {bs[h].block_number : h \in DOMAIN bs} :
    \A h \in DOMAIN bs : bs[h].block_number <= n

\* C16: in the sweep of an accepted block import a record that was not
\* finalized is finalized if and only if it has 3 reports or more, or
\* now - first_seen > 3, or its block number is below the tallest one minus 1.
C16_FinalizedIffRule ==
  [][(HandlerStep /\ blocks' # blocks /\ ~crashed') =>
       \A h \in DOMAIN blocks' :
         (h \in DOMAIN blocks => ~blocks[h].output) =>
           (blocks'[h].output <=>
              \/ blocks'[h].report_count >= 3
              \/ clock - blocks'[h].first_seen > 3
              \/ blocks'[h].block_number < OneBelow(Tallest(blocks')))]_vars

\* C17: a record created by an accepted block import has the propagation time
\* of that import as its lowest one and the importing node as its only
\* reporter, and a record emits at least one row when it is finalized.
C17_NewRecordHasItsReporter ==
  [][HandlerStep =>
       /\ \A h \in DOMAIN blocks' \ DOMAIN blocks :
            /\ h \in DOMAIN history'
            /\ blocks'[h].lowest_prop_time = history'[h].best
            /\ ReporterOrdinals(blocks'[h]) = history'[h].tied
            /\ Len(blocks'[h].reporters) = 1
       /\ \A h \in DOMAIN blocks' :
            (blocks'[h].output /\ (h \in DOMAIN blocks => ~blocks[h].output)) =>
              RowsFor(h, outputs') >= 1]_vars

\* C18: the output flag of a record that stays in the ledger never goes from
\* true to false; a hash is seen open again only as a fresh record, with one
\* report, first seen at the time of the import that created it and no
\* reporter of an earlier time.
C18_FinalizedNeverReverts ==
  [][HandlerStep =>
       /\ \A h \in DOMAIN blocks \cap DOMAIN blocks' :
            blocks[h].output => blocks'[h].output
       /\ \A h \in DOMAIN blocks' \ DOMAIN blocks :
            /\ blocks'[h].report_count = 1
            /\ blocks'[h].first_seen = clock
            /\ \A i \in 1..Len(blocks'[h].reporters) :
                 blocks'[h].reporters[i].timestamp = clock]_vars

\* A hash whose rows were emitted is in the ledger again, open, first seen
\* at a later time: its finalized record was evicted and a fresh one created.
C18_Witness ==
  \E h \in LiveHashes :
    /\ h \in emitted
    /\ h \in DOMAIN blocks
    /\ ~blocks[h].output
    /\ blocks[h].report_count = 1
    /\ blocks[h].first_seen = AgeThreshold + 1

\* C20: a record that the retention pass of an import drops, and that is more
\* than one block behind the tallest record, was finalized before that import
\* or by its sweep, which emitted its rows; so a record dropped while open is
\* within one block of the tallest.
C20_EvictedBehindWasFinalized ==
  [][\A m \in EvictionImports :
       (BlockImport(m[1], m[2], m[3], m[4]) /\ ~crashed') =>
         LET all == DOMAIN blocks \cup {m[3]}
             num(h) == IF h \in DOMAIN blocks THEN blocks[h].block_number ELSE m[2]
             tallest == CHOOSE n \in {num(h) : h \in all} : \A h \in all : num(h) <= n
         IN  \A h \in all \ DOMAIN blocks' :
               num(h) < OneBelow(tallest) =>
                 \/ h \in DOMAIN blocks /\ blocks[h].output
                 \/ RowsFor(h, outputs') >= 1]_vars

\* Both kinds of eviction happened: 0xAA was dropped after its rows were
\* emitted (it is back as a fresh record), 0xBB was imported, never emitted
\* and dropped while open.
C20_Witness ==
  /\ "0xAA" \in emitted /\ "0xAA" \in DOMAIN blocks
  /\ ~blocks["0xAA"].output /\ blocks["0xAA"].report_count = 1
  /\ lastLowest["0xBB"] # 0 /\ "0xBB" \notin emitted /\ "0xBB" \notin DOMAIN blocks

\* The mutex the task asks for at a position.
Wanted(at) ==
  CASE at \in {"lock_nodes", "lock_store", "save_nodes"} -> {"nodes"}
    [] at \in {"lock_blocks", "save", "lock_count"} -> {"blocks"}
    [] at = "lock_csv" -> {"csv_writer"}
    [] OTHER -> {}

\* C19: the task never holds two of the three mutexes, and never asks for a
\* mutex while it holds a guard: the registry guard is gone before the ledger
\* is locked, the ledger guard before the CSV writer is locked and before
\* save_blocks locks the ledger again, and none is held between messages.
C19_OneMutexAtATime ==
  /\ Cardinality(held) <= 1
  /\ Wanted(task.at) # {} => held = {}
  /\ task.at = "idle" => held = {}

\* save_blocks holds the ledger mutex after the rows of the message were
\* written under the CSV writer mutex.
C19_Witness ==
  /\ task.at = "saving"
  /\ held = {"blocks"}
  /\ outputs # <<>>
  /\ "1" \in DOMAIN nodes

\* The row the sweep pushes for a reporter of a record of the given hash and
\* height, carrying the given propagation time.
RowFor(hash, block_number, reporter, propagation_time) ==
  [timestamp |-> reporter.timestamp,
   node_name |-> reporter.node_name,
   node_id |-> reporter.node_id,
   block_number |-> block_number,
   block_hash |-> hash,
   propagation_time |-> propagation_time]

\* The reporters of a record after a step continue those before it: nothing
\* changed, one reporter was put behind the others, or one reporter replaced
\* them all.
InInsertionOrder(before, after) ==
  \/ after = before
  \/ Len(after) = Len(before) + 1 /\ SubSeq(after, 1, Len(before)) = before
  \/ Len(after) = 1

\* C21: the rows a message emits for a hash are the reporters its record has
\* after the message, one row per reporter and in the order the reporters
\* entered the record, and every row carries the smallest propagation time
\* among the accepted imports of the hash since the record was created, the
\* emitting import included.
C21_RowsAreReportersAtMinimum ==
  [][MessageStep =>
       /\ \A h \in LiveHashes :
            LET rows == RowsOfHash(h, outputs')
            IN  rows # <<>> =>
                  /\ h \in DOMAIN blocks' /\ h \in DOMAIN history'
                  /\ rows = [i \in 1..Len(blocks'[h].reporters) |->
                               RowFor(h, blocks'[h].block_number,
                                      blocks'[h].reporters[i], history'[h].best)]
       /\ \A h \in DOMAIN history \cap DOMAIN history' :
            InInsertionOrder(blocks[h].reporters, blocks'[h].reporters)]_vars

\* The third import of a hash emitted two rows with distinct names, for the
\* two nodes tied at the smallest propagation time reported for it.
C21_Witness ==
  /\ "0xAA" \in DOMAIN history
  /\ history["0xAA"].count = ReportThreshold
  /\ Cardinality(history["0xAA"].tied) = 2
  /\ history["0xAA"].best = 40
  /\ Len(outputs) = 2
  /\ outputs[1].node_name # outputs[2].node_name
  /\ outputs[1].propagation_time = 40 /\ outputs[2].propagation_time = 40

\* C22: when an accepted block import runs the sweep, every record of the
\* ledger has first_seen <= now, so that now - first_seen does not underflow
\* and the handler does not panic.
C22_AgeNeverUnderflows ==
  [][\A m \in SweepImports :
       BlockImport(m[1], m[2], m[3], m[4]) =>
         /\ \A h \in DOMAIN blocks : ~AgeUnderflows(blocks[h], clock)
         /\ ~crashed']_vars

====
